---------------------------- MODULE Spec2Model ----------------------------
(***************************************************************************)
(* A model of two parts of the repository:                                 *)
(*                                                                         *)
(*  - compute-client/src/controller/orchestrator.rs: the replica service    *)
(*    names (generate_replica_service_name, parse_replica_service_name);    *)
(*  - materialize/dataflow/types.rs: the Dataflow envelope, the             *)
(*    RelationExpr algebra, its type derivation typ(), the dependency       *)
(*    extraction uses(), and the derived serde encoding.                    *)
(*                                                                         *)
(* Rust strings that the code inspects character by character (service     *)
(* names) are sequences of one-character strings.  Strings that the code    *)
(* only stores and compares (dataflow names, JSON keys) are TLA+ strings.   *)
(***************************************************************************)
EXTENDS Integers, Sequences, FiniteSets, TLC

VARIABLES
    \* ---- orchestrator.rs ----
    gen_in,        \* the (instance_id, replica_id) last given to generate_replica_service_name
    service_name,  \* the service name at hand (generated, or reported from outside)
    parse_out,     \* the result of parse_replica_service_name(service_name)
    services,      \* the service names the inner orchestrator holds, in its listing order
    call,          \* the last ensure_replica, drop_replica or fetch_replica_metrics call
    prev_call,     \* the call before it: what it was asked and the name it addressed
    listing,       \* the last list_replicas call since ensure_replica or drop_replica
                   \* last ran: what list_services gave, what it returned
    upstream,      \* the items the inner orchestrator's watch_services stream has yielded
    delivered,     \* the ComputeInstanceEvents the returned stream has yielded
    watch,         \* the returned stream: "idle", "open" or "panicked"
    \* ---- types.rs ----
    expr,          \* the RelationExpr the planner is assembling
    typ_out,       \* the result of expr.typ()
    dataflow,      \* the Dataflow built around expr
    df_out,        \* the results of dataflow.typ() and dataflow.uses()
    encoded,       \* serde_json encoding of dataflow
    decoded        \* what decoding `encoded` gives

vars ==
    <<gen_in, service_name, parse_out,
      services, call, prev_call, listing, upstream, delivered, watch,
      expr, typ_out, dataflow, df_out, encoded, decoded>>

nameVars == <<gen_in, service_name, parse_out>>
orchVars == <<services, call, prev_call, listing, upstream, delivered, watch>>
exprVars == <<expr, typ_out>>
dataflowVars == <<dataflow, df_out, encoded, decoded>>

\* A value for "nothing here yet"; every variable that can hold it holds records.
None == [none |-> TRUE]

Min(a, b) == IF a < b THEN a ELSE b

(***************************************************************************)
(*                    Bounds of the model                                  *)
(***************************************************************************)
\* Largest numeric part of an instance id or replica id given to generate.
MaxId == 21
\* Longest run of characters drawn for a digit position of an outside name.
MaxDigits == 2
\* Largest number of nodes of a RelationExpr the planner assembles.
MaxNodes == 3

(***************************************************************************)
(*        Characters, u64 Display and u64 FromStr (Rust std)               *)
(***************************************************************************)
Digits == <<"0", "1", "2", "3", "4", "5", "6", "7", "8", "9">>

\* (?-u)\d : an ASCII digit.
IsDigit(c) == \E d \in 1..10 : Digits[d] = c

DigitVal(c) == (CHOOSE d \in 1..10 : Digits[d] = c) - 1

\* format!("{n}") of a u64: decimal, no sign, no leading zeros.
RECURSIVE FormatU64(_)
FormatU64(n) ==
    IF n < 10 THEN <<Digits[n + 1]>>
    ELSE Append(FormatU64(n \div 10), Digits[(n % 10) + 1])

\* u64::MAX = 18446744073709551615, as its decimal digits.
U64MaxDigits ==
    <<"1", "8", "4", "4", "6", "7", "4", "4", "0", "7",
      "3", "7", "0", "9", "5", "5", "1", "6", "1", "5">>

RECURSIVE StripZeros(_)
StripZeros(ds) ==
    IF Len(ds) > 1 /\ ds[1] = "0" THEN StripZeros(Tail(ds)) ELSE ds

\* a > b for two digit strings of the same length.
RECURSIVE DigitsGreater(_, _)
DigitsGreater(a, b) ==
    IF a = <<>> THEN FALSE
    ELSE IF DigitVal(a[1]) # DigitVal(b[1]) THEN DigitVal(a[1]) > DigitVal(b[1])
    ELSE DigitsGreater(Tail(a), Tail(b))

\* Whether the checked multiply-and-add of u64::from_str overflows on ds.
OverflowsU64(ds) ==
    LET t == StripZeros(ds)
    IN  \/ Len(t) > Len(U64MaxDigits)
        \/ Len(t) = Len(U64MaxDigits) /\ DigitsGreater(t, U64MaxDigits)

RECURSIVE DigitsValue(_, _)
DigitsValue(ds, acc) ==
    IF ds = <<>> THEN acc
    ELSE DigitsValue(Tail(ds), acc * 10 + DigitVal(ds[1]))

\* str::parse::<u64>(): Err on the empty string, on a non-digit and on overflow.
ParseU64(ds) ==
    IF ds = <<>> \/ (\E k \in 1..Len(ds) : ~IsDigit(ds[k])) \/ OverflowsU64(ds)
    THEN [ok |-> FALSE, val |-> 0]
    ELSE [ok |-> TRUE, val |-> DigitsValue(StripZeros(ds), 0)]

(***************************************************************************)
(*        ComputeInstanceId and ReplicaId (controller.rs)                  *)
(***************************************************************************)
User(n) == [variant |-> "User", id |-> n]
System(n) == [variant |-> "System", id |-> n]

\* Display for ComputeInstanceId: 's' or 'u', then the number.
InstanceIdToString(id) ==
    <<IF id.variant = "System" THEN "s" ELSE "u">> \o FormatU64(id.id)

\* FromStr for ComputeInstanceId.
InstanceIdFromStr(s) ==
    IF Len(s) < 2 \/ ~ParseU64(Tail(s)).ok \/ s[1] \notin {"s", "u"}
    THEN [ok |-> FALSE, val |-> User(0)]
    ELSE [ok |-> TRUE,
          val |-> IF s[1] = "s" THEN System(ParseU64(Tail(s)).val)
                  ELSE User(ParseU64(Tail(s)).val)]

(***************************************************************************)
(*        generate_replica_service_name / parse_replica_service_name       *)
(***************************************************************************)
ClusterLit == <<"c", "l", "u", "s", "t", "e", "r", "-">>
ReplicaLit == <<"-", "r", "e", "p", "l", "i", "c", "a", "-">>

\* format!("cluster-{instance_id}-replica-{replica_id}")
generate_replica_service_name_swapped(instance_id, replica_id) ==
    ClusterLit \o FormatU64(replica_id) \o ReplicaLit \o InstanceIdToString(instance_id)

generate_replica_service_name(instance_id, replica_id) ==
    ClusterLit \o InstanceIdToString(instance_id) \o ReplicaLit \o FormatU64(replica_id)

\* The pieces of the regex matcher.  A position is an index into s (1-based);
\* 0 is "no match".
MatchLiteral(s, pos, lit) ==
    IF /\ pos # 0
       /\ pos + Len(lit) - 1 <= Len(s)
       /\ SubSeq(s, pos, pos + Len(lit) - 1) = lit
    THEN pos + Len(lit) ELSE 0

MatchClass(s, pos, class) ==
    IF pos # 0 /\ pos <= Len(s) /\ s[pos] \in class THEN pos + 1 ELSE 0

\* \d+ : the longest run of digits from pos, at least one.
RECURSIVE DigitRunEnd(_, _)
DigitRunEnd(s, pos) ==
    IF pos <= Len(s) /\ IsDigit(s[pos]) THEN DigitRunEnd(s, pos + 1) ELSE pos

MatchDigits(s, pos) ==
    IF pos # 0 /\ DigitRunEnd(s, pos) > pos THEN DigitRunEnd(s, pos) ELSE 0

\* $ without the multi-line flag: only the end of the text.
MatchEnd(s, pos) == IF pos # 0 /\ pos = Len(s) + 1 THEN pos ELSE 0

\* SERVICE_NAME_RE.captures(s) for (?-u)^cluster-([us]\d+)-replica-(\d+)$ :
\* ^ anchors the match at position 1.
ServiceNameCaptures_unanchored(s) ==
    LET p1 == MatchLiteral(s, 1, ClusterLit)
        p2 == MatchClass(s, p1, {"u", "s"})
        p3 == MatchDigits(s, p2)
        p4 == MatchLiteral(s, p3, ReplicaLit)
        p5 == MatchDigits(s, p4)
    IN  IF p5 = 0 THEN [matched |-> FALSE, g1 |-> <<>>, g2 |-> <<>>]
        ELSE [matched |-> TRUE,
              g1 |-> SubSeq(s, p1, p3 - 1),
              g2 |-> SubSeq(s, p4, p5 - 1)]

ServiceNameCaptures(s) ==
    LET p1 == MatchLiteral(s, 1, ClusterLit)
        p2 == MatchClass(s, p1, {"u", "s"})
        p3 == MatchDigits(s, p2)
        p4 == MatchLiteral(s, p3, ReplicaLit)
        p5 == MatchDigits(s, p4)
        p6 == MatchEnd(s, p5)
    IN  IF p6 = 0 THEN [matched |-> FALSE, g1 |-> <<>>, g2 |-> <<>>]
        ELSE [matched |-> TRUE,
              g1 |-> SubSeq(s, p1, p3 - 1),
              g2 |-> SubSeq(s, p4, p5 - 1)]

InvalidServiceNameMsg ==
    <<"i", "n", "v", "a", "l", "i", "d", " ", "s", "e", "r", "v", "i", "c", "e", " ",
      "n", "a", "m", "e", ":", " ">>

ParseOk(i, r) == [kind |-> "Ok", instance_id |-> i, replica_id |-> r, msg |-> <<>>]
ParseErr(m) == [kind |-> "Err", instance_id |-> User(0), replica_id |-> 0, msg |-> m]
\* .parse().unwrap() on an Err: the thread panics.
ParsePanic == [kind |-> "Panic", instance_id |-> User(0), replica_id |-> 0, msg |-> <<>>]

parse_replica_service_name(name) ==
    LET caps == ServiceNameCaptures(name)
    IN  IF ~caps.matched THEN ParseErr(InvalidServiceNameMsg \o name)
        ELSE IF ~InstanceIdFromStr(caps.g1).ok \/ ~ParseU64(caps.g2).ok THEN ParsePanic
        ELSE ParseOk(InstanceIdFromStr(caps.g1).val, ParseU64(caps.g2).val)

(***************************************************************************)
(*        Service names: inputs and actions                                *)
(***************************************************************************)
InstanceIds == {User(n) : n \in 0..MaxId} \cup {System(n) : n \in 0..MaxId}
ReplicaIds == 0..MaxId

RECURSIVE SeqsUpTo(_, _)
SeqsUpTo(S, n) ==
    IF n = 0 THEN {<<>>}
    ELSE LET shorter == SeqsUpTo(S, n - 1)
         IN  shorter \cup {Append(q, c) : q \in shorter, c \in S}

\* Twenty nines: more than u64::MAX.
TooManyNines == [k \in 1..20 |-> "9"]

\* What may stand where the grammar wants digits.
DigitParts ==
    SeqsUpTo({"1", "a"}, MaxDigits) \cup {<<"0">>, <<"0", "1">>, TooManyNines}

\* Names as an orchestrator may report them: well-formed ones and near misses.
OutsideNames ==
    { pre \o kind \o d1 \o mid \o d2 \o post :
        pre \in {ClusterLit, <<>>, <<"x">> \o ClusterLit, <<"c", "l", "u", "s", "t", "e", "r">>},
        kind \in {<<"u">>, <<"s">>, <<"x">>, <<>>},
        d1 \in DigitParts,
        mid \in {ReplicaLit, <<"-">>, <<"-", "r", "e", "p", "l", "i", "c", "a">>},
        d2 \in DigitParts,
        post \in {<<>>, <<"\n">>, <<"-", "0">>} }

\* One name is at hand at a time: it is generated or reported, parsed, and let go.
GenerateName(instance_id, replica_id) ==
    /\ service_name = None
    /\ gen_in' = [instance_id |-> instance_id, replica_id |-> replica_id]
    /\ service_name' = [name |-> generate_replica_service_name(instance_id, replica_id)]
    /\ parse_out' = None
    /\ UNCHANGED <<orchVars, exprVars, dataflowVars>>

ReportName(name) ==
    /\ service_name = None
    /\ gen_in' = None
    /\ service_name' = [name |-> name]
    /\ parse_out' = None
    /\ UNCHANGED <<orchVars, exprVars, dataflowVars>>

ParseName ==
    /\ service_name # None
    /\ parse_out = None
    /\ parse_out' = parse_replica_service_name(service_name.name)
    /\ UNCHANGED <<orchVars, gen_in, service_name, exprVars, dataflowVars>>

ForgetName ==
    /\ parse_out # None
    /\ gen_in' = None /\ service_name' = None /\ parse_out' = None
    /\ UNCHANGED <<orchVars, exprVars, dataflowVars>>

NameIdle == gen_in = None /\ service_name = None /\ parse_out = None
ExprIdle == expr = None /\ typ_out = None
DataflowIdle == dataflow = None /\ df_out = None /\ encoded = None /\ decoded = None
OrchIdle ==
    /\ services = <<>> /\ call = None /\ prev_call = None /\ listing = None
    /\ upstream = <<>> /\ delivered = <<>> /\ watch = "idle"

InitName == NameIdle /\ OrchIdle /\ ExprIdle /\ DataflowIdle

NextName ==
    \/ service_name = None /\ \E i \in InstanceIds, r \in ReplicaIds : GenerateName(i, r)
    \/ service_name = None /\ \E n \in OutsideNames : ReportName(n)
    \/ ParseName
    \/ ForgetName

SpecName == InitName /\ [][NextName]_vars


(***************************************************************************)
(*        Service names: properties                                        *)
(***************************************************************************)
\* ds is the decimal numeral of n: digits only, no leading zero, value n.
IsDecimalOf(ds, n) ==
    /\ Len(ds) >= 1
    /\ \A k \in 1..Len(ds) : IsDigit(ds[k])
    /\ Len(ds) > 1 => ds[1] # "0"
    /\ DigitsValue(ds, 0) = n

\* name is "cluster-<instance_id>-replica-<replica_id>" for the given ids.
IsNameOf(name, instance_id, replica_id) ==
    \E la \in 1..Len(name), lb \in 1..Len(name) :
        /\ Len(name) = 8 + 1 + la + 9 + lb
        /\ SubSeq(name, 1, 8) = ClusterLit
        /\ name[9] = (IF instance_id.variant = "User" THEN "u" ELSE "s")
        /\ IsDecimalOf(SubSeq(name, 10, 9 + la), instance_id.id)
        /\ SubSeq(name, 10 + la, 18 + la) = ReplicaLit
        /\ IsDecimalOf(SubSeq(name, 19 + la, 18 + la + lb), replica_id)

\* The whole-string grammar cluster-<[us] then digits>-replica-<digits>.
MatchesGrammar(name) ==
    \E la \in 1..Len(name), lb \in 1..Len(name) :
        /\ Len(name) = 8 + 1 + la + 9 + lb
        /\ SubSeq(name, 1, 8) = ClusterLit
        /\ name[9] \in {"u", "s"}
        /\ \A k \in 10..(9 + la) : IsDigit(name[k])
        /\ SubSeq(name, 10 + la, 18 + la) = ReplicaLit
        /\ \A k \in (19 + la)..(18 + la + lb) : IsDigit(name[k])

IsSuffix(t, s) == Len(t) <= Len(s) /\ SubSeq(s, Len(s) - Len(t) + 1, Len(s)) = t

\* C1: for every instance id and replica id, the generated name is exactly
\* "cluster-<instance_id>-replica-<replica_id>", and parsing it returns Ok
\* with the original pair.
C1_GenerateParseRoundTrip ==
    gen_in # None =>
        /\ IsNameOf(service_name.name, gen_in.instance_id, gen_in.replica_id)
        /\ parse_out # None =>
              parse_out = ParseOk(gen_in.instance_id, gen_in.replica_id)

\* generate(u17, 3) gave "cluster-u17-replica-3" and it was parsed.
C1_Witness ==
    /\ gen_in = [instance_id |-> User(17), replica_id |-> 3]
    /\ service_name.name = ClusterLit \o <<"u", "1", "7">> \o ReplicaLit \o <<"3">>
    /\ parse_out # None
    /\ parse_out.kind = "Ok"

\* C2: a string that does not match the grammar is parsed to a failure, never
\* to a pair, and the failure carries the input verbatim.
C2_ParseRejectsNonMatching ==
    (parse_out # None /\ ~MatchesGrammar(service_name.name)) =>
        /\ parse_out.kind = "Err"
        /\ IsSuffix(service_name.name, parse_out.msg)

\* "cluster-x1-replica-1" was parsed and rejected.
C2_Witness ==
    /\ parse_out # None
    /\ service_name.name = ClusterLit \o <<"x", "1">> \o ReplicaLit \o <<"1">>
    /\ parse_out.kind = "Err"

(***************************************************************************)
(*        ComputeOrchestrator over the inner NamespacedOrchestrator        *)
(***************************************************************************)
\* Most services the inner orchestrator holds at once.
MaxServices == 2

\* Result<_, anyhow::Error> of a call, or a panic while it ran.
CallOk(v) == [kind |-> "Ok", val |-> v]
CallErr(m) == [kind |-> "Err", val |-> m]
CallPanic == [kind |-> "Panic", val |-> <<>>]

\* The error the inner orchestrator answers with when it fails.
InnerError == CallErr("orchestrator unavailable")

Holds(store, name) == \E k \in 1..Len(store) : store[k] = name

\* NamespacedOrchestrator::ensure_service: services are stored by name; a
\* name already held is reconfigured in place, a new one is added.
ensure_service(store, name) == IF Holds(store, name) THEN store ELSE Append(store, name)

\* NamespacedOrchestrator::drop_service: the service of that name is removed.
drop_service(store, name) == SelectSeq(store, LAMBDA n : n # name)

\* NamespacedOrchestrator::list_services: the names held, in listing order.
list_services(store) == store

\* s.into_iter().filter_map(|x| parse_replica_service_name(&x).ok()), run to
\* its end: a name that parses to Err is skipped, one that parses to Ok is
\* yielded as its pair.
RECURSIVE FilterMapParse(_)
FilterMapParse(names) ==
    IF names = <<>> THEN <<>>
    ELSE LET parsed == parse_replica_service_name(Head(names))
         IN  (IF parsed.kind = "Ok"
              THEN <<<<parsed.instance_id, parsed.replica_id>>>>
              ELSE <<>>) \o FilterMapParse(Tail(names))

\* ComputeOrchestrator::list_replicas on the answer of list_services, with
\* the returned iterator consumed by the caller: an Err is passed on as it
\* is; the unwrap inside parse_replica_service_name panics the consumer when
\* the iterator reaches a name whose number does not fit.
list_replicas(listed) ==
    IF listed.kind = "Err" THEN listed
    ELSE IF \E k \in 1..Len(listed.val) :
               parse_replica_service_name(listed.val[k]).kind = "Panic"
         THEN CallPanic
         ELSE CallOk(FilterMapParse(listed.val))

\* Names other software may give to services in the same namespace.
ForeignNames ==
    { ClusterLit \o <<"x", "1">> \o ReplicaLit \o <<"1">>,
      ClusterLit \o <<"u", "0", "1">> \o ReplicaLit \o <<"0", "7">>,
      ClusterLit \o <<"u", "1">> \o ReplicaLit \o TooManyNines,
      ClusterLit \o <<"s", "2">> \o ReplicaLit \o <<"3", "\n">>,
      ClusterLit \o <<"s", "2">> \o ReplicaLit \o <<"3">>,
      <<"e", "n", "v", "d">> }

\* A service appears in the namespace without ensure_replica.
OutsideService(name) ==
    /\ Len(services) < MaxServices
    /\ ~Holds(services, name)
    /\ services' = Append(services, name)
    /\ UNCHANGED <<call, prev_call, listing, upstream, delivered, watch,
                   nameVars, exprVars, dataflowVars>>

\* A service disappears from the namespace without drop_replica.
OutsideRemoval(k) ==
    /\ k \in 1..Len(services)
    /\ services' = drop_service(services, services[k])
    /\ UNCHANGED <<call, prev_call, listing, upstream, delivered, watch,
                   nameVars, exprVars, dataflowVars>>

\* self.list_replicas(), its iterator consumed; list_services answers with
\* the names it holds or with an error.
ListReplicas(inner_ok) ==
    LET listed == IF inner_ok THEN CallOk(list_services(services)) ELSE InnerError
    IN  /\ listing' = [listed |-> listed, result |-> list_replicas(listed)]
        /\ UNCHANGED <<services, call, prev_call, upstream, delivered, watch,
                       nameVars, exprVars, dataflowVars>>

InitListing == NameIdle /\ OrchIdle /\ ExprIdle /\ DataflowIdle

NextListing ==
    \/ \E name \in ForeignNames : OutsideService(name)
    \/ \E k \in 1..MaxServices : OutsideRemoval(k)
    \/ \E inner_ok \in BOOLEAN : ListReplicas(inner_ok)

SpecListing == InitListing /\ [][NextListing]_vars

\* name follows the grammar and its two numbers are those of the pair.
NameDenotes(name, instance_id, replica_id) ==
    \E la \in 1..Len(name), lb \in 1..Len(name) :
        /\ Len(name) = 8 + 1 + la + 9 + lb
        /\ SubSeq(name, 1, 8) = ClusterLit
        /\ name[9] = (IF instance_id.variant = "User" THEN "u" ELSE "s")
        /\ \A k \in 10..(9 + la) : IsDigit(name[k])
        /\ DigitsValue(SubSeq(name, 10, 9 + la), 0) = instance_id.id
        /\ SubSeq(name, 10 + la, 18 + la) = ReplicaLit
        /\ \A k \in (19 + la)..(18 + la + lb) : IsDigit(name[k])
        /\ DigitsValue(SubSeq(name, 19 + la, 18 + la + lb), 0) = replica_id

\* C11: list_replicas returns exactly one pair for each reported name that
\* matches the grammar, in the orchestrator's order; names that do not match
\* are skipped and never make the listing fail; an error of list_services is
\* returned unchanged.
C11_ListReplicas ==
    listing # None =>
        IF listing.listed.kind = "Err"
        THEN listing.result.kind = "Err" /\ listing.result.val = listing.listed.val
        ELSE LET matching == SelectSeq(listing.listed.val, MatchesGrammar)
                 pairs == listing.result.val
             IN  /\ listing.result.kind = "Ok"
                 /\ Len(pairs) = Len(matching)
                 /\ \A j \in 1..Len(matching) :
                       NameDenotes(matching[j], pairs[j][1], pairs[j][2])

(***************************************************************************)
(*        ComputeOrchestrator::watch_services                              *)
(***************************************************************************)
\* Most items the inner orchestrator's event stream yields.
MaxEvents == 3

ServiceEvent(service_id, process_id, status, time) ==
    [service_id |-> service_id, process_id |-> process_id, status |-> status, time |-> time]

ComputeInstanceEvent(instance_id, replica_id, process_id, status, time) ==
    [instance_id |-> instance_id, replica_id |-> replica_id,
     process_id |-> process_id, status |-> status, time |-> time]

\* fn translate_event: the `?` passes the parse error on; the unwrap inside
\* parse_replica_service_name panics.
translate_event(event) ==
    LET parsed == parse_replica_service_name(event.service_id)
    IN  CASE parsed.kind = "Ok" ->
               CallOk(ComputeInstanceEvent(parsed.instance_id, parsed.replica_id,
                                           event.process_id, event.status, event.time))
          [] parsed.kind = "Err" -> CallErr(parsed.msg)
          [] parsed.kind = "Panic" -> CallPanic

\* .map(|event| event.and_then(translate_event))
MapItem(item) == IF item.kind = "Ok" THEN translate_event(item.val) ELSE item

\* .filter_map(..): Ok(event) is yielded, Err(error) is logged and dropped.
FilterMapItem(mapped) == IF mapped.kind = "Ok" THEN <<mapped.val>> ELSE <<>>

\* What the inner orchestrator's watch_services stream may yield.
UpstreamItems ==
    << CallOk(ServiceEvent(ClusterLit \o <<"u", "1">> \o ReplicaLit \o <<"1", "1">>,
                          0, "Ready", 5)),
      CallOk(ServiceEvent(ClusterLit \o <<"s", "1">> \o ReplicaLit \o <<"1">>,
                          1, "NotReady", 9)),
      CallOk(ServiceEvent(ClusterLit \o <<"u", "0", "1">> \o ReplicaLit \o <<"0", "7">>,
                          2, "Ready", 9)),
      CallOk(ServiceEvent(ClusterLit \o <<"x", "1">> \o ReplicaLit \o <<"1">>,
                          0, "Ready", 7)),
      CallOk(ServiceEvent(ClusterLit \o <<"u", "1">> \o ReplicaLit \o TooManyNines,
                          0, "Ready", 8)),
      InnerError >>

\* self.watch_services(): the adapted stream is returned, nothing polled yet.
WatchServices ==
    /\ watch = "idle"
    /\ watch' = "open"
    /\ UNCHANGED <<services, call, prev_call, listing, upstream, delivered,
                   nameVars, exprVars, dataflowVars>>

\* The consumer polls the stream and the inner stream yields item: it goes
\* through map and filter_map; a panic in translate_event unwinds through the
\* poll and the stream is gone.
UpstreamItem(item) ==
    /\ watch = "open"
    /\ Len(upstream) < MaxEvents
    /\ upstream' = Append(upstream, item)
    /\ LET mapped == MapItem(item)
       IN  IF mapped.kind = "Panic"
           THEN watch' = "panicked" /\ delivered' = delivered
           ELSE watch' = watch /\ delivered' = delivered \o FilterMapItem(mapped)
    /\ UNCHANGED <<services, call, prev_call, listing, nameVars, exprVars, dataflowVars>>

\* The inner stream ends, and the adapted stream with it.
UpstreamEnds ==
    /\ watch = "open"
    /\ watch' = "closed"
    /\ UNCHANGED <<services, call, prev_call, listing, upstream, delivered,
                   nameVars, exprVars, dataflowVars>>

InitWatch == NameIdle /\ OrchIdle /\ ExprIdle /\ DataflowIdle

NextWatch ==
    \/ WatchServices
    \/ watch = "open" /\ \E k \in DOMAIN UpstreamItems : UpstreamItem(UpstreamItems[k])
    \/ UpstreamEnds

SpecWatch == InitWatch /\ [][NextWatch]_vars

IsValidItem(item) == item.kind = "Ok" /\ MatchesGrammar(item.val.service_id)

\* C12: the returned stream yields, in upstream order, one event for every Ok
\* upstream event whose service_id is a replica service name, with
\* process_id, status and time copied and the ids taken from the name; an
\* upstream error or an event whose service_id is no such name is dropped
\* and never ends the stream.
C12_WatchServices ==
    /\ watch # "panicked"
    /\ LET valid == SelectSeq(upstream, IsValidItem)
       IN  /\ Len(delivered) = Len(valid)
           /\ \A j \in 1..Len(valid) :
                 /\ delivered[j].process_id = valid[j].val.process_id
                 /\ delivered[j].status = valid[j].val.status
                 /\ delivered[j].time = valid[j].val.time
                 /\ NameDenotes(valid[j].val.service_id,
                                delivered[j].instance_id, delivered[j].replica_id)

(***************************************************************************)
(*        ensure_replica, drop_replica, fetch_replica_metrics              *)
(***************************************************************************)
\* What a call did: the name it addressed, the services afterwards, its result.
Outcome(name, store, result) == [name |-> name, store |-> store, result |-> result]

\* ComputeOrchestrator::ensure_replica: the `?` passes an error of
\* ensure_service on; on success the service is returned.
ensure_replica(store, instance_id, replica_id, inner_ok) ==
    LET name == generate_replica_service_name(instance_id, replica_id)
    IN  IF inner_ok
        THEN Outcome(name, ensure_service(store, name), CallOk(name))
        ELSE Outcome(name, store, InnerError)

\* A faulty variant, for comparison: the service name is made from the
\* replica id alone.
drop_replica_by_replica_id(store, instance_id, replica_id, inner_ok) ==
    LET name == generate_replica_service_name(User(1), replica_id)
    IN  IF inner_ok
        THEN Outcome(name, drop_service(store, name), CallOk(<<>>))
        ELSE Outcome(name, store, InnerError)

\* ComputeOrchestrator::drop_replica: the answer of drop_service is returned.
drop_replica(store, instance_id, replica_id, inner_ok) ==
    LET name == generate_replica_service_name(instance_id, replica_id)
    IN  IF inner_ok
        THEN Outcome(name, drop_service(store, name), CallOk(<<>>))
        ELSE Outcome(name, store, InnerError)

\* ComputeOrchestrator::fetch_replica_metrics: the answer of
\* fetch_service_metrics is returned; no service is changed.
fetch_replica_metrics(store, instance_id, replica_id, inner_ok) ==
    LET name == generate_replica_service_name(instance_id, replica_id)
    IN  Outcome(name, store, IF inner_ok THEN CallOk(<<>>) ELSE InnerError)

\* The replicas the controller manages.
ReplicaPairs == {<<User(1), 1>>, <<User(1), 11>>, <<User(11), 1>>, <<System(1), 1>>}

\* The call is recorded with the services as they were before it; of the
\* call before it, what was asked and the name addressed are kept.
Record(op, instance_id, replica_id, outcome) ==
    /\ call' = [op |-> op, instance_id |-> instance_id, replica_id |-> replica_id,
                name |-> outcome.name, result |-> outcome.result, before |-> services]
    /\ prev_call' = IF call = None THEN None
                    ELSE [op |-> call.op, instance_id |-> call.instance_id,
                          replica_id |-> call.replica_id, name |-> call.name]
    /\ services' = outcome.store

EnsureReplica(instance_id, replica_id, inner_ok) ==
    /\ \/ Len(services) < MaxServices
       \/ Holds(services, generate_replica_service_name(instance_id, replica_id))
    /\ Record("ensure_replica", instance_id, replica_id,
              ensure_replica(services, instance_id, replica_id, inner_ok))
    /\ listing' = None
    /\ UNCHANGED <<upstream, delivered, watch, nameVars, exprVars, dataflowVars>>

DropReplica(instance_id, replica_id, inner_ok) ==
    /\ Record("drop_replica", instance_id, replica_id,
              drop_replica(services, instance_id, replica_id, inner_ok))
    /\ listing' = None
    /\ UNCHANGED <<upstream, delivered, watch, nameVars, exprVars, dataflowVars>>

FetchReplicaMetrics(instance_id, replica_id, inner_ok) ==
    /\ Record("fetch_replica_metrics", instance_id, replica_id,
              fetch_replica_metrics(services, instance_id, replica_id, inner_ok))
    /\ UNCHANGED <<listing, upstream, delivered, watch, nameVars, exprVars, dataflowVars>>

InitReplicas == NameIdle /\ OrchIdle /\ ExprIdle /\ DataflowIdle

NextReplicas ==
    \/ \E pair \in ReplicaPairs, inner_ok \in BOOLEAN : EnsureReplica(pair[1], pair[2], inner_ok)
    \/ \E pair \in ReplicaPairs, inner_ok \in BOOLEAN : DropReplica(pair[1], pair[2], inner_ok)
    \/ \E pair \in ReplicaPairs, inner_ok \in BOOLEAN :
          FetchReplicaMetrics(pair[1], pair[2], inner_ok)
    \/ \E inner_ok \in BOOLEAN : ListReplicas(inner_ok)

SpecReplicas == InitReplicas /\ [][NextReplicas]_vars

\* The pairs list_replicas gives for the services in store.
Listed(store) ==
    LET pairs == list_replicas(CallOk(list_services(store))).val
    IN  {pairs[k] : k \in 1..Len(pairs)}

CallPair(c) == <<c.instance_id, c.replica_id>>

Succeeded(op) == call # None /\ call.op = op /\ call.result.kind = "Ok"

\* C13: ensure_replica, drop_replica and fetch_replica_metrics address the
\* same service name for the same pair and different names for different
\* pairs; after a successful ensure_replica(i, r) list_replicas contains
\* (i, r), after a successful drop_replica(i, r) it does not, and no call
\* changes whether any other pair is listed.
C13_ReplicaNames ==
    /\ (call # None /\ prev_call # None) =>
          (CallPair(call) = CallPair(prev_call) <=> call.name = prev_call.name)
    /\ Succeeded("ensure_replica") =>
          /\ CallPair(call) \in Listed(services)
          /\ (listing # None /\ listing.result.kind = "Ok") =>
                \E k \in 1..Len(listing.result.val) : listing.result.val[k] = CallPair(call)
    /\ Succeeded("drop_replica") =>
          /\ CallPair(call) \notin Listed(services)
          /\ (listing # None /\ listing.result.kind = "Ok") =>
                \A k \in 1..Len(listing.result.val) : listing.result.val[k] # CallPair(call)
    /\ call # None =>
          \A pair \in (Listed(call.before) \cup Listed(services)) \ {CallPair(call)} :
              pair \in Listed(call.before) <=> pair \in Listed(services)

\* (u11, 1) was ensured, then (u1, 11) was dropped while both were held, and
\* the listing taken afterwards holds (u11, 1) alone.
C13_Witness ==
    /\ Succeeded("drop_replica")
    /\ CallPair(call) = <<User(1), 11>>
    /\ Listed(call.before) = {<<User(1), 11>>, <<User(11), 1>>}
    /\ prev_call # None
    /\ prev_call.op = "ensure_replica"
    /\ CallPair(prev_call) = <<User(11), 1>>
    /\ listing # None
    /\ listing.result.kind = "Ok"
    /\ listing.result.val = <<<<User(11), 1>>>>

(***************************************************************************)
(*        repr: ColumnType, RelationType, Datum (crate::repr)              *)
(***************************************************************************)
\* Option<String>: <<>> is None, <<s>> is Some(s).
NoName == <<>>
Named(s) == <<s>>

ColumnType(name, nullable, scalar_type) ==
    [name |-> name, nullable |-> nullable, scalar_type |-> scalar_type]

RelationType(column_types) == [column_types |-> column_types]

NullDatum == [dt |-> "Null", i |-> 0, s |-> ""]
Int32Datum(i) == [dt |-> "Int32", i |-> i, s |-> ""]
StringDatum(s) == [dt |-> "String", i |-> 0, s |-> s]

\* Datum::scalar_type
DatumScalarType(datum) == datum.dt

\* ScalarType::is_instance_of(&ColumnType): the same scalar type, or Null in
\* a nullable column.
ScalarTypeIsInstanceOf(scalar_type, column_typ) ==
    \/ scalar_type = column_typ.scalar_type
    \/ scalar_type = "Null" /\ column_typ.nullable

\* Datum::is_instance_of(&ColumnType)
DatumIsInstanceOf(datum, column_typ) ==
    ScalarTypeIsInstanceOf(DatumScalarType(datum), column_typ)

\* ColumnType::union: defined for two columns of the same scalar type; the
\* result is nullable when either is.
ColumnTypeUnionDefined(l, r) == l.scalar_type = r.scalar_type

ColumnTypeUnion(l, r) ==
    ColumnType(l.name, l.nullable \/ r.nullable, l.scalar_type)

(***************************************************************************)
(*        ScalarExpr, AggregateExpr, RelationExpr (data constructors)      *)
(***************************************************************************)
Column(i) == [tag |-> "Column", index |-> i]
Literal(datum) == [tag |-> "Literal", datum |-> datum]
If(cond, then, els) == [tag |-> "If", cond |-> cond, then |-> then, els |-> els]

\* ScalarExpr::columns
columns(is) == [k \in 1..Len(is) |-> Column(is[k])]

AggregateExpr(func, e, distinct) == [func |-> func, expr |-> e, distinct |-> distinct]

Constant(rows, typ) == [tag |-> "Constant", rows |-> rows, typ |-> typ]
Get(name, typ) == [tag |-> "Get", name |-> name, typ |-> typ]
Let(name, value, body) == [tag |-> "Let", name |-> name, value |-> value, body |-> body]
Project(input, outputs) == [tag |-> "Project", input |-> input, outputs |-> outputs]
Map(input, scalars) == [tag |-> "Map", input |-> input, scalars |-> scalars]
Filter(input, predicates) == [tag |-> "Filter", input |-> input, predicates |-> predicates]
Join(inputs, variables) == [tag |-> "Join", inputs |-> inputs, variables |-> variables]
Reduce(input, group_key, aggregates) ==
    [tag |-> "Reduce", input |-> input, group_key |-> group_key, aggregates |-> aggregates]
TopK(input, group_key, order_key, limit) ==
    [tag |-> "TopK", input |-> input, group_key |-> group_key,
     order_key |-> order_key, limit |-> limit]
OrDefault(input, default) == [tag |-> "OrDefault", input |-> input, default |-> default]
Negate(input) == [tag |-> "Negate", input |-> input]
Distinct(input) == [tag |-> "Distinct", input |-> input]
Union(left, right) == [tag |-> "Union", left |-> left, right |-> right]

\* The builder methods of RelationExpr.
project(self, outputs) == Project(self, outputs)
map(self, scalars) == Map(self, scalars)
filter(self, predicates) == Filter(self, predicates)
reduce(self, group_key, aggregates) == Reduce(self, group_key, aggregates)
or_default(self, default) == OrDefault(self, default)
negate(self) == Negate(self)
distinct(self) == Distinct(self)
union(self, other) == Union(self, other)

\* The subterms a node owns, left to right.
Children(e) ==
    CASE e.tag \in {"Constant", "Get"} -> <<>>
      [] e.tag = "Let" -> <<e.value, e.body>>
      [] e.tag = "Join" -> e.inputs
      [] e.tag = "Union" -> <<e.left, e.right>>
      [] OTHER -> <<e.input>>

RECURSIVE Size(_)
RECURSIVE SizeAll(_)
SizeAll(es) == IF es = <<>> THEN 0 ELSE Size(Head(es)) + SizeAll(Tail(es))
Size(e) == 1 + SizeAll(Children(e))

(***************************************************************************)
(*        RelationExpr::typ                                                *)
(***************************************************************************)
\* typ() either returns a RelationType or panics (assert!, assert_eq!, or an
\* index out of bounds).
TypOk(typ) == [panic |-> FALSE, typ |-> typ]
TypPanic == [panic |-> TRUE, typ |-> RelationType(<<>>)]

\* Constant: every datum zipped with its column must be an instance of it.
typ_Constant(rows, typ) ==
    IF \A r \in 1..Len(rows) :
         \A c \in 1..Min(Len(rows[r]), Len(typ.column_types)) :
            DatumIsInstanceOf(rows[r][c], typ.column_types[c])
    THEN TypOk(typ) ELSE TypPanic

typ_Get(typ) == TypOk(typ)

typ_Let(body_typ) == body_typ

\* Project: input_typ.column_types[i] for each output i (0-based).
typ_Project_unchecked(input_typ, outputs) ==
    IF input_typ.panic THEN TypPanic
    ELSE LET cols == input_typ.typ.column_types
             kept == SelectSeq(outputs, LAMBDA i : i < Len(cols))
         IN  TypOk(RelationType([j \in 1..Len(kept) |-> cols[kept[j] + 1]]))

typ_Project(input_typ, outputs) ==
    IF input_typ.panic THEN TypPanic
    ELSE LET cols == input_typ.typ.column_types
         IN  IF \E j \in 1..Len(outputs) : outputs[j] >= Len(cols) THEN TypPanic
             ELSE TypOk(RelationType([j \in 1..Len(outputs) |-> cols[outputs[j] + 1]]))

typ_Map(input_typ, scalars) ==
    IF input_typ.panic THEN TypPanic
    ELSE TypOk(RelationType(input_typ.typ.column_types
                              \o [k \in 1..Len(scalars) |-> scalars[k][2]]))

\* A faulty variant, for comparison: Filter typed like Map, one boolean column per predicate.
typ_Filter_appending(input_typ, predicates) ==
    IF input_typ.panic THEN TypPanic
    ELSE TypOk(RelationType(input_typ.typ.column_types
                 \o [k \in 1..Len(predicates) |-> ColumnType(NoName, FALSE, "Bool")]))

typ_Filter(input_typ, predicates) == input_typ

RECURSIVE ConcatColumns(_)
ConcatColumns(typs) ==
    IF typs = <<>> THEN <<>>
    ELSE Head(typs).typ.column_types \o ConcatColumns(Tail(typs))

typ_Join(input_typs) ==
    IF \E k \in 1..Len(input_typs) : input_typs[k].panic THEN TypPanic
    ELSE TypOk(RelationType(ConcatColumns(input_typs)))

\* A faulty variant, for comparison: the aggregates' columns come first.
typ_Reduce_aggregates_first(input_typ, group_key, aggregates) ==
    IF input_typ.panic THEN TypPanic
    ELSE LET cols == input_typ.typ.column_types
         IN  IF \E j \in 1..Len(group_key) : group_key[j] >= Len(cols) THEN TypPanic
             ELSE TypOk(RelationType(
                    [k \in 1..Len(aggregates) |-> aggregates[k][2]]
                    \o [j \in 1..Len(group_key) |-> cols[group_key[j] + 1]]))

typ_Reduce(input_typ, group_key, aggregates) ==
    IF input_typ.panic THEN TypPanic
    ELSE LET cols == input_typ.typ.column_types
         IN  IF \E j \in 1..Len(group_key) : group_key[j] >= Len(cols) THEN TypPanic
             ELSE TypOk(RelationType(
                    [j \in 1..Len(group_key) |-> cols[group_key[j] + 1]]
                    \o [k \in 1..Len(aggregates) |-> aggregates[k][2]]))

typ_TopK(input_typ) == input_typ

\* OrDefault: each column zipped with the default's datum; zip stops at the
\* shorter of the two.
typ_OrDefault(input_typ, default) ==
    IF input_typ.panic THEN TypPanic
    ELSE LET cols == input_typ.typ.column_types
         IN  IF \A c \in 1..Min(Len(cols), Len(default)) :
                   ScalarTypeIsInstanceOf(DatumScalarType(default[c]), cols[c])
             THEN input_typ ELSE TypPanic

typ_Negate(input_typ) == input_typ

typ_Distinct(input_typ) == input_typ

\* A faulty variant, for comparison: no assert_eq! on the arities; zip stops at the shorter side.
typ_Union_unasserted(left_typ, right_typ) ==
    IF left_typ.panic \/ right_typ.panic THEN TypPanic
    ELSE LET l == left_typ.typ.column_types
             r == right_typ.typ.column_types
             n == Min(Len(l), Len(r))
         IN  IF \E c \in 1..n : ~ColumnTypeUnionDefined(l[c], r[c]) THEN TypPanic
             ELSE TypOk(RelationType([c \in 1..n |-> ColumnTypeUnion(l[c], r[c])]))

typ_Union(left_typ, right_typ) ==
    IF left_typ.panic \/ right_typ.panic THEN TypPanic
    ELSE LET l == left_typ.typ.column_types
             r == right_typ.typ.column_types
         IN  IF Len(l) # Len(r) THEN TypPanic
             ELSE IF \E c \in 1..Len(l) : ~ColumnTypeUnionDefined(l[c], r[c]) THEN TypPanic
             ELSE TypOk(RelationType([c \in 1..Len(l) |-> ColumnTypeUnion(l[c], r[c])]))

RECURSIVE RelationExpr_typ(_)
RelationExpr_typ(e) ==
    CASE e.tag = "Constant" -> typ_Constant(e.rows, e.typ)
      [] e.tag = "Get" -> typ_Get(e.typ)
      [] e.tag = "Let" -> typ_Let(RelationExpr_typ(e.body))
      [] e.tag = "Project" -> typ_Project(RelationExpr_typ(e.input), e.outputs)
      [] e.tag = "Map" -> typ_Map(RelationExpr_typ(e.input), e.scalars)
      [] e.tag = "Filter" -> typ_Filter(RelationExpr_typ(e.input), e.predicates)
      [] e.tag = "Join" -> typ_Join([k \in 1..Len(e.inputs) |-> RelationExpr_typ(e.inputs[k])])
      [] e.tag = "Reduce" -> typ_Reduce(RelationExpr_typ(e.input), e.group_key, e.aggregates)
      [] e.tag = "TopK" -> typ_TopK(RelationExpr_typ(e.input))
      [] e.tag = "OrDefault" -> typ_OrDefault(RelationExpr_typ(e.input), e.default)
      [] e.tag = "Negate" -> typ_Negate(RelationExpr_typ(e.input))
      [] e.tag = "Distinct" -> typ_Distinct(RelationExpr_typ(e.input))
      [] e.tag = "Union" -> typ_Union(RelationExpr_typ(e.left), RelationExpr_typ(e.right))

\* RelationExpr::arity (only meaningful when typ() returns).
RelationExpr_arity(e) == Len(RelationExpr_typ(e).typ.column_types)

(***************************************************************************)
(*        The planner: inputs and actions on a RelationExpr                *)
(***************************************************************************)
Int32NotNull == ColumnType(NoName, FALSE, "Int32")
Int32Nullable == ColumnType(NoName, TRUE, "Int32")
StringNotNull == ColumnType(NoName, FALSE, "String")
NameColumn == ColumnType(Named("name"), FALSE, "String")
QuantityColumn == ColumnType(Named("quantity"), FALSE, "Int32")

T0 == RelationType(<<>>)
T1 == RelationType(<<Int32NotNull>>)
T1n == RelationType(<<Int32Nullable>>)
T1s == RelationType(<<StringNotNull>>)
T2 == RelationType(<<NameColumn, QuantityColumn>>)

\* Constant and Get leaves: well-typed tables, ill-typed tables (a Null or
\* an Int32 in the wrong column), rows shorter than the type, references.
Leaves ==
    { Constant(<<>>, T1),
      Constant(<<<<Int32Datum(1)>>>>, T1),
      Constant(<<<<NullDatum>>>>, T1n),
      Constant(<<<<NullDatum>>>>, T1),
      Constant(<<<<Int32Datum(1)>>, <<StringDatum("a")>>>>, T1),
      Constant(<<<<StringDatum("a"), Int32Datum(1)>>>>, T2),
      Constant(<<<<StringDatum("a")>>>>, T2),
      Constant(<<>>, T0),
      Get("orders", T2),
      Get("c2018", T1),
      Get("c2019", T1n),
      Get("c2019", T1s),
      Get("orders", T1) }

OutputsChoices == {<<>>, <<0>>, <<1, 0>>, <<0, 0>>, <<2>>, <<1, 2>>}

ScalarsChoices ==
    { <<>>,
      <<<<Column(0), Int32NotNull>>>>,
      <<<<Literal(StringDatum("a")), StringNotNull>>, <<Literal(NullDatum), Int32Nullable>>>> }

PredicatesChoices == {<<>>, <<Column(0)>>, <<Column(1), Literal(Int32Datum(1))>>}

GroupKeyChoices == {<<>>, <<0>>, <<1, 0>>, <<2>>}

AggregatesChoices ==
    { <<>>,
      <<<<AggregateExpr("Count", Column(0), FALSE), Int32NotNull>>>>,
      <<<<AggregateExpr("Max", Column(0), TRUE), StringNotNull>>,
        <<AggregateExpr("Count", Literal(NullDatum), FALSE), Int32Nullable>>>> }

DefaultChoices ==
    { <<>>,
      <<Int32Datum(0)>>,
      <<NullDatum>>,
      <<StringDatum("a")>>,
      <<StringDatum("a"), Int32Datum(0)>>,
      <<Int32Datum(0), Int32Datum(0)>> }

VariablesChoices == {<<>>, <<<<<<0, 0>>, <<1, 0>>>>>>}

BuildingOn == expr # None /\ dataflow = None

CanGrowBy(n) == BuildingOn /\ Size(expr) + n <= MaxNodes

\* The planner starts from a leaf.
NewLeaf(leaf) ==
    /\ expr = None
    /\ expr' = leaf
    /\ typ_out' = None
    /\ UNCHANGED <<orchVars, nameVars, dataflowVars>>

BuildProject(outputs) ==
    /\ CanGrowBy(1)
    /\ expr' = project(expr, outputs)
    /\ typ_out' = None
    /\ UNCHANGED <<orchVars, nameVars, dataflowVars>>

BuildMap(scalars) ==
    /\ CanGrowBy(1)
    /\ expr' = map(expr, scalars)
    /\ typ_out' = None
    /\ UNCHANGED <<orchVars, nameVars, dataflowVars>>

BuildFilter(predicates) ==
    /\ CanGrowBy(1)
    /\ expr' = filter(expr, predicates)
    /\ typ_out' = None
    /\ UNCHANGED <<orchVars, nameVars, dataflowVars>>

BuildReduce(group_key, aggregates) ==
    /\ CanGrowBy(1)
    /\ expr' = reduce(expr, group_key, aggregates)
    /\ typ_out' = None
    /\ UNCHANGED <<orchVars, nameVars, dataflowVars>>

BuildTopK(group_key, order_key, limit) ==
    /\ CanGrowBy(1)
    /\ expr' = TopK(expr, group_key, order_key, limit)
    /\ typ_out' = None
    /\ UNCHANGED <<orchVars, nameVars, dataflowVars>>

BuildOrDefault(default) ==
    /\ CanGrowBy(1)
    /\ expr' = or_default(expr, default)
    /\ typ_out' = None
    /\ UNCHANGED <<orchVars, nameVars, dataflowVars>>

BuildNegate ==
    /\ CanGrowBy(1)
    /\ expr' = negate(expr)
    /\ typ_out' = None
    /\ UNCHANGED <<orchVars, nameVars, dataflowVars>>

BuildDistinct ==
    /\ CanGrowBy(1)
    /\ expr' = distinct(expr)
    /\ typ_out' = None
    /\ UNCHANGED <<orchVars, nameVars, dataflowVars>>

\* self.union(other) with the expression at hand on either side.
BuildUnion(other, self_is_left) ==
    /\ CanGrowBy(1 + Size(other))
    /\ expr' = IF self_is_left THEN union(expr, other) ELSE union(other, expr)
    /\ typ_out' = None
    /\ UNCHANGED <<orchVars, nameVars, dataflowVars>>

BuildJoin(others_before, others_after, variables) ==
    /\ CanGrowBy(1 + SizeAll(others_before) + SizeAll(others_after))
    /\ expr' = Join(others_before \o <<expr>> \o others_after, variables)
    /\ typ_out' = None
    /\ UNCHANGED <<orchVars, nameVars, dataflowVars>>

\* Join of no inputs at all.
BuildEmptyJoin ==
    /\ expr = None
    /\ expr' = Join(<<>>, <<>>)
    /\ typ_out' = None
    /\ UNCHANGED <<orchVars, nameVars, dataflowVars>>

BuildLet(name, other, self_is_body) ==
    /\ CanGrowBy(1 + Size(other))
    /\ expr' = IF self_is_body THEN Let(name, other, expr) ELSE Let(name, expr, other)
    /\ typ_out' = None
    /\ UNCHANGED <<orchVars, nameVars, dataflowVars>>

\* expr.typ()
CallTyp ==
    /\ BuildingOn
    /\ typ_out = None
    /\ typ_out' = [result |-> RelationExpr_typ(expr)]
    /\ UNCHANGED <<orchVars, expr, nameVars, dataflowVars>>

\* Wrapping the expression at hand in an operator of one input.
BuildUnary ==
    \/ \E outputs \in OutputsChoices : BuildProject(outputs)
    \/ \E scalars \in ScalarsChoices : BuildMap(scalars)
    \/ \E predicates \in PredicatesChoices : BuildFilter(predicates)
    \/ \E group_key \in GroupKeyChoices, aggregates \in AggregatesChoices :
          BuildReduce(group_key, aggregates)
    \/ \E limit \in {0, 1} : BuildTopK(<<0>>, <<limit>>, limit)
    \/ \E default \in DefaultChoices : BuildOrDefault(default)
    \/ BuildNegate
    \/ BuildDistinct
    \/ BuildJoin(<<>>, <<>>, <<>>)

\* Combining the expression at hand with a leaf.
BuildBinary ==
    \/ \E other \in Leaves, self_is_left \in BOOLEAN : BuildUnion(other, self_is_left)
    \/ \E other \in Leaves, self_first \in BOOLEAN, variables \in VariablesChoices :
          BuildJoin(IF self_first THEN <<>> ELSE <<other>>,
                    IF self_first THEN <<other>> ELSE <<>>, variables)
    \/ \E name \in {"c2018", "tmp"}, other \in Leaves, self_is_body \in BOOLEAN :
          BuildLet(name, other, self_is_body)

Init == NameIdle /\ OrchIdle /\ ExprIdle /\ DataflowIdle

Next ==
    \/ expr = None /\ \E leaf \in Leaves : NewLeaf(leaf)
    \/ BuildEmptyJoin
    \/ CanGrowBy(1) /\ BuildUnary
    \/ CanGrowBy(2) /\ BuildBinary
    \/ CallTyp

Spec == Init /\ [][Next]_vars


(***************************************************************************)
(*        typ(): properties                                                *)
(***************************************************************************)
TypCalledOn(tag) == expr # None /\ typ_out # None /\ expr.tag = tag

InRange(indices, cols) == \A j \in 1..Len(indices) : indices[j] < Len(cols)

C6_ProjectTyp ==
    TypCalledOn("Project") =>
        LET in == RelationExpr_typ(expr.input)
            cols == in.typ.column_types
            out == typ_out.result
        IN  ~in.panic =>
              IF InRange(expr.outputs, cols)
              THEN /\ ~out.panic
                   /\ Len(out.typ.column_types) = Len(expr.outputs)
                   /\ \A j \in 1..Len(expr.outputs) :
                         out.typ.column_types[j] = cols[expr.outputs[j] + 1]
              ELSE out.panic

\* Columns (name, quantity) projected to [1, 0] were typed (quantity, name).
C6_Witness ==
    /\ TypCalledOn("Project")
    /\ expr.input = Get("orders", T2)
    /\ expr.outputs = <<1, 0>>
    /\ typ_out.result = TypOk(RelationType(<<QuantityColumn, NameColumn>>))

\* C7: typ() of Reduce has arity group_key.len() + aggregates.len(): first the
\* input's columns at the group_key indices, in order, then each aggregate's
\* declared column type, in order; a group_key index out of range aborts.
C7_ReduceTyp ==
    TypCalledOn("Reduce") =>
        LET in == RelationExpr_typ(expr.input)
            cols == in.typ.column_types
            out == typ_out.result
            nk == Len(expr.group_key)
            na == Len(expr.aggregates)
        IN  ~in.panic =>
              IF InRange(expr.group_key, cols)
              THEN /\ ~out.panic
                   /\ Len(out.typ.column_types) = nk + na
                   /\ \A j \in 1..nk :
                         out.typ.column_types[j] = cols[expr.group_key[j] + 1]
                   /\ \A k \in 1..na :
                         out.typ.column_types[nk + k] = expr.aggregates[k][2]
              ELSE out.panic

\* A Reduce with two key columns and two aggregates was typed with arity 4.
C7_Witness ==
    /\ TypCalledOn("Reduce")
    /\ expr.input = Get("orders", T2)
    /\ expr.group_key = <<1, 0>>
    /\ Len(expr.aggregates) = 2
    /\ typ_out.result =
          TypOk(RelationType(<<QuantityColumn, NameColumn, StringNotNull, Int32Nullable>>))

\* C8: typ() of OrDefault{input, default} returns input.typ() only when
\* default has the input's arity and every default[c] is an instance of
\* column c; a shorter or longer default, or an incompatible datum, aborts.
C8_OrDefaultTyp ==
    TypCalledOn("OrDefault") =>
        LET in == RelationExpr_typ(expr.input)
            cols == in.typ.column_types
            out == typ_out.result
        IN  ~in.panic =>
              IF /\ Len(expr.default) = Len(cols)
                 /\ \A c \in 1..Len(cols) :
                       ScalarTypeIsInstanceOf(DatumScalarType(expr.default[c]), cols[c])
              THEN out = in
              ELSE out.panic

\* C9: for Filter, TopK, Negate and Distinct, typ() of the operator is typ()
\* of its input, whatever the predicates, keys and limit, and it aborts
\* exactly when the input's typ() aborts.
C9_SchemaPreserving ==
    (expr # None /\ typ_out # None
       /\ expr.tag \in {"Filter", "TopK", "Negate", "Distinct"}) =>
        /\ typ_out.result = RelationExpr_typ(expr.input)
        /\ typ_out.result.panic <=> RelationExpr_typ(expr.input).panic

\* A Filter with a predicate over (name, quantity) was typed (name, quantity).
C9_Witness ==
    /\ TypCalledOn("Filter")
    /\ expr.input = Get("orders", T2)
    /\ expr.predicates # <<>>
    /\ typ_out.result = TypOk(T2)


(***************************************************************************)
(*        Dataflow: Source, Sink, View; name(), typ(), uses()              *)
(***************************************************************************)
KafkaSourceConnector(addr, topic, raw_schema, schema_registry_url) ==
    [variant |-> "Kafka",
     inner |-> [addr |-> addr, topic |-> topic, raw_schema |-> raw_schema,
                schema_registry_url |-> schema_registry_url]]

LocalSourceConnector == [variant |-> "Local", inner |-> [unit |-> TRUE]]

KafkaSinkConnector(addr, topic, schema_id) ==
    [variant |-> "Kafka", inner |-> [addr |-> addr, topic |-> topic, schema_id |-> schema_id]]

Source(name, connector, typ) ==
    [variant |-> "Source", inner |-> [name |-> name, connector |-> connector, typ |-> typ]]

\* from is the pair (String, RelationType).
Sink(name, from, connector) ==
    [variant |-> "Sink", inner |-> [name |-> name, from |-> from, connector |-> connector]]

\* A struct literal: the three fields are stored as given.
View(name, relation_expr, typ) ==
    [variant |-> "View",
     inner |-> [name |-> name, relation_expr |-> relation_expr, typ |-> typ]]

\* Dataflow::name
Dataflow_name(self) == self.inner.name

\* A faulty variant, for comparison: a View's type derived from its expression instead of read
\* from the stored field.
Dataflow_typ_derived(self) ==
    CASE self.variant = "Source" -> self.inner.typ
      [] self.variant = "Sink" -> self.inner.from[2]
      [] self.variant = "View" -> RelationExpr_typ(self.inner.relation_expr).typ

\* Dataflow::typ
Dataflow_typ(self) ==
    CASE self.variant = "Source" -> self.inner.typ
      [] self.variant = "Sink" -> self.inner.from[2]
      [] self.variant = "View" -> self.inner.typ

\* RelationExpr::visit: the callback sees every subterm, a node before its
\* children, children left to right.  The value is the sequence of subterms
\* in the order the callback sees them.
RECURSIVE visit(_)
RECURSIVE visitAll(_)
visitAll(es) == IF es = <<>> THEN <<>> ELSE visit(Head(es)) \o visitAll(Tail(es))
visit(e) == <<e>> \o visitAll(Children(e))

RECURSIVE PushGetNames(_, _)
PushGetNames(seen, out) ==
    IF seen = <<>> THEN out
    ELSE PushGetNames(Tail(seen),
                      IF Head(seen).tag = "Get" THEN Append(out, Head(seen).name) ELSE out)

\* A faulty variant, for comparison: a name is pushed only the first time it is met.
RECURSIVE PushNewGetNames(_, _)
PushNewGetNames(seen, out) ==
    IF seen = <<>> THEN out
    ELSE PushNewGetNames(Tail(seen),
            IF /\ Head(seen).tag = "Get"
               /\ \A k \in 1..Len(out) : out[k] # Head(seen).name
            THEN Append(out, Head(seen).name) ELSE out)

uses_inner_deduplicating(self, out) == PushNewGetNames(visit(self), out)

\* RelationExpr::uses_inner: push the name of every Get the visit meets.
uses_inner(self, out) == PushGetNames(visit(self), out)

\* Dataflow::uses
Dataflow_uses(self) ==
    CASE self.variant = "Source" -> <<>>
      [] self.variant = "Sink" -> <<self.inner.from[1]>>
      [] self.variant = "View" -> uses_inner(self.inner.relation_expr, <<>>)


(***************************************************************************)
(*        Dataflows: inputs and actions                                    *)
(***************************************************************************)
TOrders == RelationType(<<Int32NotNull, NameColumn>>)
TCustomers == RelationType(<<QuantityColumn>>)

\* The expression of the view "report": a projected join of orders with the
\* distinct union of two customer tables.
ReportExpr ==
    Project(
        Join(<<Get("orders", TOrders),
               Distinct(Union(Get("c2018", TCustomers), Get("c2019", TCustomers)))>>,
             <<<<<<0, 0>>, <<1, 0>>>>>>),
        <<1, 2>>)

ViewLeaves ==
    { Get("orders", T2),
      Get("c2018", T1),
      Get("c2019", T1n),
      Constant(<<<<StringDatum("a"), Int32Datum(1)>>, <<StringDatum("b")>>>>, T2),
      Constant(<<<<NullDatum>>>>, T1) }

SourceConnectors ==
    { KafkaSourceConnector("127.0.0.1:9092", "orders", "{}", NoName),
      KafkaSourceConnector("[::1]:9092", "orders", "{}", Named("http://registry:8081/")),
      LocalSourceConnector }

SinkConnectors == { KafkaSinkConnector("127.0.0.1:9092", "out", 7) }

\* The types a planner may store in a View: the derived one, or another.
ViewTypChoices(e) ==
    {T1} \cup (IF RelationExpr_typ(e).panic THEN {} ELSE {RelationExpr_typ(e).typ})

PlanReport ==
    /\ expr = None
    /\ dataflow = None
    /\ expr' = ReportExpr
    /\ typ_out' = None
    /\ UNCHANGED <<orchVars, nameVars, dataflowVars>>

MakeSource(name, connector, typ) ==
    /\ expr = None
    /\ dataflow = None
    /\ dataflow' = Source(name, connector, typ)
    /\ UNCHANGED <<orchVars, nameVars, exprVars, df_out, encoded, decoded>>

MakeSink(name, from, connector) ==
    /\ expr = None
    /\ dataflow = None
    /\ dataflow' = Sink(name, from, connector)
    /\ UNCHANGED <<orchVars, nameVars, exprVars, df_out, encoded, decoded>>

\* Dataflow::View(View { name, relation_expr, typ })
MakeView(name, typ) ==
    /\ BuildingOn
    /\ dataflow' = View(name, expr, typ)
    /\ UNCHANGED <<orchVars, nameVars, exprVars, df_out, encoded, decoded>>

Untouched == dataflow # None /\ df_out = None /\ encoded = None

\* dataflow.typ()
CallDataflowTyp ==
    /\ Untouched
    /\ df_out' = [op |-> "typ", typ |-> Dataflow_typ(dataflow), uses |-> <<>>]
    /\ UNCHANGED <<orchVars, nameVars, exprVars, dataflow, encoded, decoded>>

\* dataflow.uses()
CallUses ==
    /\ Untouched
    /\ df_out' = [op |-> "uses", typ |-> T0, uses |-> Dataflow_uses(dataflow)]
    /\ UNCHANGED <<orchVars, nameVars, exprVars, dataflow, encoded, decoded>>


(***************************************************************************)
(*        serde: the JSON data model                                       *)
(*                                                                         *)
(* serde_json::to_string_pretty and from_str are modelled at the level of  *)
(* JSON values: an object is the sequence of its (key, value) pairs in the *)
(* order they are written.                                                 *)
(***************************************************************************)
JNull == [j |-> "null"]
JBool(b) == [j |-> "bool", b |-> b]
JNum(n) == [j |-> "num", n |-> n]
JStr(str) == [j |-> "str", s |-> str]
JArr(items) == [j |-> "arr", items |-> items]
JObj(fields) == [j |-> "obj", fields |-> fields]

\* An externally tagged enum variant: {"<variant>": <content>}.
Tagged(key, content) == JObj(<<<<key, content>>>>)

IsTagged(j) == j.j = "obj" /\ Len(j.fields) = 1
TagOf(j) == j.fields[1][1]
ContentOf(j) == j.fields[1][2]

HasField(j, key) == \E k \in 1..Len(j.fields) : j.fields[k][1] = key
Field(j, key) == j.fields[CHOOSE k \in 1..Len(j.fields) : j.fields[k][1] = key][2]

\* A struct is read from an object that has each of its fields once.
IsStruct(j, keys) ==
    /\ j.j = "obj"
    /\ \A key \in keys : HasField(j, key)
    /\ \A k1, k2 \in 1..Len(j.fields) : j.fields[k1][1] = j.fields[k2][1] => k1 = k2

DecOk(v) == [ok |-> TRUE, val |-> v]
DecErr == [ok |-> FALSE, val |-> None]

EncSeq(xs, Enc(_)) == JArr([k \in 1..Len(xs) |-> Enc(xs[k])])

DecSeq(j, Dec(_)) ==
    LET items == [k \in 1..Len(j.items) |-> Dec(j.items[k])]
    IN  IF j.j = "arr" /\ \A k \in 1..Len(j.items) : items[k].ok
        THEN DecOk([k \in 1..Len(j.items) |-> items[k].val])
        ELSE DecErr

EncString(str) == JStr(str)
DecString(j) == IF j.j = "str" THEN DecOk(j.s) ELSE DecErr

EncBool(b) == JBool(b)
DecBool(j) == IF j.j = "bool" THEN DecOk(j.b) ELSE DecErr

EncUsize(n) == JNum(n)
DecUsize(j) == IF j.j = "num" /\ j.n >= 0 THEN DecOk(j.n) ELSE DecErr

EncI32(n) == JNum(n)
DecI32(j) == IF j.j = "num" THEN DecOk(j.n) ELSE DecErr

\* Option<String>, and Option<Url> through url_serde: null or a string.
EncOptionString(o) == IF o = <<>> THEN JNull ELSE JStr(o[1])
DecOptionString(j) ==
    IF j.j = "null" THEN DecOk(<<>>)
    ELSE IF j.j = "str" THEN DecOk(<<j.s>>)
    ELSE DecErr

EncUsizes(xs) == EncSeq(xs, EncUsize)
DecUsizes(j) == DecSeq(j, DecUsize)

\* (usize, usize)
EncUsizePair(pr) == JArr(<<EncUsize(pr[1]), EncUsize(pr[2])>>)
DecUsizePair(j) ==
    IF j.j = "arr" /\ Len(j.items) = 2 /\ DecUsize(j.items[1]).ok /\ DecUsize(j.items[2]).ok
    THEN DecOk(<<j.items[1].n, j.items[2].n>>) ELSE DecErr

(***************************************************************************)
(*        serde: repr and func (ScalarType, ColumnType, RelationType,      *)
(*        Datum, AggregateFunc)                                            *)
(***************************************************************************)
ScalarTypeKey(scalar_type) ==
    CASE scalar_type = "Null" -> "null"
      [] scalar_type = "Int32" -> "int32"
      [] scalar_type = "String" -> "string"

EncScalarType(scalar_type) == JStr(ScalarTypeKey(scalar_type))
DecScalarType(j) ==
    IF j.j # "str" THEN DecErr
    ELSE CASE j.s = "null" -> DecOk("Null")
           [] j.s = "int32" -> DecOk("Int32")
           [] j.s = "string" -> DecOk("String")
           [] OTHER -> DecErr

EncColumnType(ct) ==
    JObj(<<<<"name", EncOptionString(ct.name)>>,
           <<"nullable", EncBool(ct.nullable)>>,
           <<"scalar_type", EncScalarType(ct.scalar_type)>>>>)
DecColumnType(j) ==
    IF /\ IsStruct(j, {"nullable", "scalar_type"})
       /\ HasField(j, "name") => DecOptionString(Field(j, "name")).ok
       /\ DecBool(Field(j, "nullable")).ok
       /\ DecScalarType(Field(j, "scalar_type")).ok
    THEN DecOk(ColumnType(
            IF HasField(j, "name") THEN DecOptionString(Field(j, "name")).val ELSE NoName,
            DecBool(Field(j, "nullable")).val,
            DecScalarType(Field(j, "scalar_type")).val))
    ELSE DecErr

EncRelationType(t) == JObj(<<<<"column_types", EncSeq(t.column_types, EncColumnType)>>>>)
DecRelationType(j) ==
    LET column_types == DecSeq(Field(j, "column_types"), DecColumnType)
    IN  IF IsStruct(j, {"column_types"}) /\ column_types.ok
        THEN DecOk(RelationType(column_types.val))
        ELSE DecErr

EncDatum(datum) ==
    CASE datum.dt = "Null" -> JStr("null")
      [] datum.dt = "Int32" -> Tagged("int32", EncI32(datum.i))
      [] datum.dt = "String" -> Tagged("string", EncString(datum.s))
DecDatum(j) ==
    IF j.j = "str" THEN (IF j.s = "null" THEN DecOk(NullDatum) ELSE DecErr)
    ELSE IF ~IsTagged(j) THEN DecErr
    ELSE CASE TagOf(j) = "int32" /\ DecI32(ContentOf(j)).ok -> DecOk(Int32Datum(ContentOf(j).n))
           [] TagOf(j) = "string" /\ DecString(ContentOf(j)).ok -> DecOk(StringDatum(ContentOf(j).s))
           [] OTHER -> DecErr

EncDatums(row) == EncSeq(row, EncDatum)
DecDatums(j) == DecSeq(j, DecDatum)

EncAggregateFunc(func) ==
    JStr(CASE func = "Count" -> "count" [] func = "Max" -> "max")
DecAggregateFunc(j) ==
    IF j.j # "str" THEN DecErr
    ELSE CASE j.s = "count" -> DecOk("Count")
           [] j.s = "max" -> DecOk("Max")
           [] OTHER -> DecErr


(***************************************************************************)
(*        serde: the derived Serialize / Deserialize of types.rs           *)
(***************************************************************************)
\* #[serde(rename_all = "snake_case")] on ScalarExpr.
ScalarExprKey(tag) ==
    CASE tag = "Column" -> "column"
      [] tag = "Literal" -> "literal"
      [] tag = "If" -> "if"

RECURSIVE EncScalarExpr(_)
EncScalarExpr(e) ==
    Tagged(ScalarExprKey(e.tag),
           CASE e.tag = "Column" -> EncUsize(e.index)
             [] e.tag = "Literal" -> EncDatum(e.datum)
             [] e.tag = "If" ->
                   JObj(<<<<"cond", EncScalarExpr(e.cond)>>,
                          <<"then", EncScalarExpr(e.then)>>,
                          <<"els", EncScalarExpr(e.els)>>>>))

RECURSIVE DecScalarExpr(_)
DecScalarExpr(j) ==
    IF ~IsTagged(j) THEN DecErr
    ELSE LET c == ContentOf(j)
         IN  CASE TagOf(j) = "column" ->
                    IF DecUsize(c).ok THEN DecOk(Column(DecUsize(c).val)) ELSE DecErr
               [] TagOf(j) = "literal" ->
                    IF DecDatum(c).ok THEN DecOk(Literal(DecDatum(c).val)) ELSE DecErr
               [] TagOf(j) = "if" ->
                    IF /\ IsStruct(c, {"cond", "then", "els"})
                       /\ DecScalarExpr(Field(c, "cond")).ok
                       /\ DecScalarExpr(Field(c, "then")).ok
                       /\ DecScalarExpr(Field(c, "els")).ok
                    THEN DecOk(If(DecScalarExpr(Field(c, "cond")).val,
                                  DecScalarExpr(Field(c, "then")).val,
                                  DecScalarExpr(Field(c, "els")).val))
                    ELSE DecErr
               [] OTHER -> DecErr

EncScalarExprs(es) == EncSeq(es, EncScalarExpr)
DecScalarExprs(j) == DecSeq(j, DecScalarExpr)

EncAggregateExpr(a) ==
    JObj(<<<<"func", EncAggregateFunc(a.func)>>,
           <<"expr", EncScalarExpr(a.expr)>>,
           <<"distinct", EncBool(a.distinct)>>>>)
DecAggregateExpr(j) ==
    IF /\ IsStruct(j, {"func", "expr", "distinct"})
       /\ DecAggregateFunc(Field(j, "func")).ok
       /\ DecScalarExpr(Field(j, "expr")).ok
       /\ DecBool(Field(j, "distinct")).ok
    THEN DecOk(AggregateExpr(DecAggregateFunc(Field(j, "func")).val,
                             DecScalarExpr(Field(j, "expr")).val,
                             DecBool(Field(j, "distinct")).val))
    ELSE DecErr

\* (ScalarExpr, ColumnType) and (AggregateExpr, ColumnType)
EncScalarColumn(pr) == JArr(<<EncScalarExpr(pr[1]), EncColumnType(pr[2])>>)
DecScalarColumn(j) ==
    LET scalar == DecScalarExpr(j.items[1])
        column_type == DecColumnType(j.items[2])
    IN  IF j.j = "arr" /\ Len(j.items) = 2 /\ scalar.ok /\ column_type.ok
        THEN DecOk(<<scalar.val, column_type.val>>)
        ELSE DecErr

EncAggregateColumn(pr) == JArr(<<EncAggregateExpr(pr[1]), EncColumnType(pr[2])>>)
DecAggregateColumn(j) ==
    LET aggregate == DecAggregateExpr(j.items[1])
        column_type == DecColumnType(j.items[2])
    IN  IF j.j = "arr" /\ Len(j.items) = 2 /\ aggregate.ok /\ column_type.ok
        THEN DecOk(<<aggregate.val, column_type.val>>)
        ELSE DecErr

EncUsizePairs(class) == EncSeq(class, EncUsizePair)
DecUsizePairs(j) == DecSeq(j, DecUsizePair)

\* A faulty variant, for comparison: the variant names lower-cased, with no word separator.
RelationExprKey_lowercase(tag) ==
    CASE tag = "Constant" -> "constant"
      [] tag = "Get" -> "get"
      [] tag = "Let" -> "let"
      [] tag = "Project" -> "project"
      [] tag = "Map" -> "map"
      [] tag = "Filter" -> "filter"
      [] tag = "Join" -> "join"
      [] tag = "Reduce" -> "reduce"
      [] tag = "TopK" -> "topk"
      [] tag = "OrDefault" -> "ordefault"
      [] tag = "Negate" -> "negate"
      [] tag = "Distinct" -> "distinct"
      [] tag = "Union" -> "union"

\* #[serde(rename_all = "snake_case")] on RelationExpr: the key a variant is
\* written under.
RelationExprKey(tag) ==
    CASE tag = "Constant" -> "constant"
      [] tag = "Get" -> "get"
      [] tag = "Let" -> "let"
      [] tag = "Project" -> "project"
      [] tag = "Map" -> "map"
      [] tag = "Filter" -> "filter"
      [] tag = "Join" -> "join"
      [] tag = "Reduce" -> "reduce"
      [] tag = "TopK" -> "top_k"
      [] tag = "OrDefault" -> "or_default"
      [] tag = "Negate" -> "negate"
      [] tag = "Distinct" -> "distinct"
      [] tag = "Union" -> "union"

RECURSIVE EncRelationExpr(_)
EncRelationExpr(e) ==
    Tagged(RelationExprKey(e.tag),
      CASE e.tag = "Constant" ->
             JObj(<<<<"rows", EncSeq(e.rows, EncDatums)>>, <<"typ", EncRelationType(e.typ)>>>>)
        [] e.tag = "Get" ->
             JObj(<<<<"name", EncString(e.name)>>, <<"typ", EncRelationType(e.typ)>>>>)
        [] e.tag = "Let" ->
             JObj(<<<<"name", EncString(e.name)>>,
                    <<"value", EncRelationExpr(e.value)>>,
                    <<"body", EncRelationExpr(e.body)>>>>)
        [] e.tag = "Project" ->
             JObj(<<<<"input", EncRelationExpr(e.input)>>, <<"outputs", EncUsizes(e.outputs)>>>>)
        [] e.tag = "Map" ->
             JObj(<<<<"input", EncRelationExpr(e.input)>>,
                    <<"scalars", EncSeq(e.scalars, EncScalarColumn)>>>>)
        [] e.tag = "Filter" ->
             JObj(<<<<"input", EncRelationExpr(e.input)>>,
                    <<"predicates", EncScalarExprs(e.predicates)>>>>)
        [] e.tag = "Join" ->
             JObj(<<<<"inputs", EncSeq(e.inputs, EncRelationExpr)>>,
                    <<"variables", EncSeq(e.variables, EncUsizePairs)>>>>)
        [] e.tag = "Reduce" ->
             JObj(<<<<"input", EncRelationExpr(e.input)>>,
                    <<"group_key", EncUsizes(e.group_key)>>,
                    <<"aggregates", EncSeq(e.aggregates, EncAggregateColumn)>>>>)
        [] e.tag = "TopK" ->
             JObj(<<<<"input", EncRelationExpr(e.input)>>,
                    <<"group_key", EncUsizes(e.group_key)>>,
                    <<"order_key", EncUsizes(e.order_key)>>,
                    <<"limit", EncUsize(e.limit)>>>>)
        [] e.tag = "OrDefault" ->
             JObj(<<<<"input", EncRelationExpr(e.input)>>, <<"default", EncDatums(e.default)>>>>)
        [] e.tag \in {"Negate", "Distinct"} ->
             JObj(<<<<"input", EncRelationExpr(e.input)>>>>)
        [] e.tag = "Union" ->
             JObj(<<<<"left", EncRelationExpr(e.left)>>, <<"right", EncRelationExpr(e.right)>>>>))


\* Deserialize for RelationExpr: the variant is found by its key; a key that
\* names no variant is an error.
RECURSIVE DecRelationExpr(_)
DecRelationExpr(j) ==
    IF ~IsTagged(j) THEN DecErr
    ELSE
    LET c == ContentOf(j)
        key == TagOf(j)
        sub_input == DecRelationExpr(Field(c, "input"))
        sub_value == DecRelationExpr(Field(c, "value"))
        sub_body == DecRelationExpr(Field(c, "body"))
        sub_left == DecRelationExpr(Field(c, "left"))
        sub_right == DecRelationExpr(Field(c, "right"))
        sub_inputs == DecSeq(Field(c, "inputs"), DecRelationExpr)
        typ == DecRelationType(Field(c, "typ"))
        rows == DecSeq(Field(c, "rows"), DecDatums)
        scalars == DecSeq(Field(c, "scalars"), DecScalarColumn)
        predicates == DecScalarExprs(Field(c, "predicates"))
        aggregates == DecSeq(Field(c, "aggregates"), DecAggregateColumn)
    IN  CASE key = "constant" ->
               IF /\ IsStruct(c, {"rows", "typ"})
                  /\ rows.ok
                  /\ typ.ok
               THEN DecOk(Constant(rows.val,
                                   typ.val))
               ELSE DecErr
          [] key = "get" ->
               IF /\ IsStruct(c, {"name", "typ"})
                  /\ DecString(Field(c, "name")).ok
                  /\ typ.ok
               THEN DecOk(Get(DecString(Field(c, "name")).val,
                              typ.val))
               ELSE DecErr
          [] key = "let" ->
               IF /\ IsStruct(c, {"name", "value", "body"})
                  /\ DecString(Field(c, "name")).ok
                  /\ sub_value.ok
                  /\ sub_body.ok
               THEN DecOk(Let(DecString(Field(c, "name")).val, sub_value.val, sub_body.val))
               ELSE DecErr
          [] key = "project" ->
               IF /\ IsStruct(c, {"input", "outputs"})
                  /\ sub_input.ok
                  /\ DecUsizes(Field(c, "outputs")).ok
               THEN DecOk(Project(sub_input.val, DecUsizes(Field(c, "outputs")).val))
               ELSE DecErr
          [] key = "map" ->
               IF /\ IsStruct(c, {"input", "scalars"})
                  /\ sub_input.ok
                  /\ scalars.ok
               THEN DecOk(Map(sub_input.val, scalars.val))
               ELSE DecErr
          [] key = "filter" ->
               IF /\ IsStruct(c, {"input", "predicates"})
                  /\ sub_input.ok
                  /\ predicates.ok
               THEN DecOk(Filter(sub_input.val, predicates.val))
               ELSE DecErr
          [] key = "join" ->
               IF /\ IsStruct(c, {"inputs", "variables"})
                  /\ sub_inputs.ok
                  /\ DecSeq(Field(c, "variables"), DecUsizePairs).ok
               THEN DecOk(Join(sub_inputs.val,
                               DecSeq(Field(c, "variables"), DecUsizePairs).val))
               ELSE DecErr
          [] key = "reduce" ->
               IF /\ IsStruct(c, {"input", "group_key", "aggregates"})
                  /\ sub_input.ok
                  /\ DecUsizes(Field(c, "group_key")).ok
                  /\ aggregates.ok
               THEN DecOk(Reduce(sub_input.val,
                                 DecUsizes(Field(c, "group_key")).val,
                                 aggregates.val))
               ELSE DecErr
          [] key = "top_k" ->
               IF /\ IsStruct(c, {"input", "group_key", "order_key", "limit"})
                  /\ sub_input.ok
                  /\ DecUsizes(Field(c, "group_key")).ok
                  /\ DecUsizes(Field(c, "order_key")).ok
                  /\ DecUsize(Field(c, "limit")).ok
               THEN DecOk(TopK(sub_input.val,
                               DecUsizes(Field(c, "group_key")).val,
                               DecUsizes(Field(c, "order_key")).val,
                               DecUsize(Field(c, "limit")).val))
               ELSE DecErr
          [] key = "or_default" ->
               IF /\ IsStruct(c, {"input", "default"})
                  /\ sub_input.ok
                  /\ DecDatums(Field(c, "default")).ok
               THEN DecOk(OrDefault(sub_input.val, DecDatums(Field(c, "default")).val))
               ELSE DecErr
          [] key = "negate" ->
               IF IsStruct(c, {"input"}) /\ sub_input.ok
               THEN DecOk(Negate(sub_input.val)) ELSE DecErr
          [] key = "distinct" ->
               IF IsStruct(c, {"input"}) /\ sub_input.ok
               THEN DecOk(Distinct(sub_input.val)) ELSE DecErr
          [] key = "union" ->
               IF IsStruct(c, {"left", "right"}) /\ sub_left.ok /\ sub_right.ok
               THEN DecOk(Union(sub_left.val, sub_right.val)) ELSE DecErr
          [] OTHER -> DecErr

\* SourceConnector and SinkConnector carry no rename_all: the keys are the
\* variant names as written.
EncSourceConnector(connector) ==
    Tagged(connector.variant,
      IF connector.variant = "Kafka"
      THEN JObj(<<<<"addr", EncString(connector.inner.addr)>>,
                  <<"topic", EncString(connector.inner.topic)>>,
                  <<"raw_schema", EncString(connector.inner.raw_schema)>>,
                  <<"schema_registry_url",
                    EncOptionString(connector.inner.schema_registry_url)>>>>)
      ELSE JObj(<<>>))

DecSourceConnector(j) ==
    IF ~IsTagged(j) THEN DecErr
    ELSE LET c == ContentOf(j)
         IN  CASE TagOf(j) = "Kafka" ->
                    IF /\ IsStruct(c, {"addr", "topic", "raw_schema", "schema_registry_url"})
                       /\ DecString(Field(c, "addr")).ok
                       /\ DecString(Field(c, "topic")).ok
                       /\ DecString(Field(c, "raw_schema")).ok
                       /\ DecOptionString(Field(c, "schema_registry_url")).ok
                    THEN DecOk(KafkaSourceConnector(
                            DecString(Field(c, "addr")).val,
                            DecString(Field(c, "topic")).val,
                            DecString(Field(c, "raw_schema")).val,
                            DecOptionString(Field(c, "schema_registry_url")).val))
                    ELSE DecErr
               [] TagOf(j) = "Local" ->
                    IF IsStruct(c, {}) THEN DecOk(LocalSourceConnector) ELSE DecErr
               [] OTHER -> DecErr

EncSinkConnector(connector) ==
    Tagged(connector.variant,
           JObj(<<<<"addr", EncString(connector.inner.addr)>>,
                  <<"topic", EncString(connector.inner.topic)>>,
                  <<"schema_id", EncI32(connector.inner.schema_id)>>>>))

DecSinkConnector(j) ==
    IF ~IsTagged(j) THEN DecErr
    ELSE LET c == ContentOf(j)
         IN  IF /\ TagOf(j) = "Kafka"
                /\ IsStruct(c, {"addr", "topic", "schema_id"})
                /\ DecString(Field(c, "addr")).ok
                /\ DecString(Field(c, "topic")).ok
                /\ DecI32(Field(c, "schema_id")).ok
             THEN DecOk(KafkaSinkConnector(DecString(Field(c, "addr")).val,
                                           DecString(Field(c, "topic")).val,
                                           DecI32(Field(c, "schema_id")).val))
             ELSE DecErr

\* #[serde(rename_all = "snake_case")] on Dataflow.
DataflowKey(variant) ==
    CASE variant = "Source" -> "source"
      [] variant = "Sink" -> "sink"
      [] variant = "View" -> "view"

\* Serialize for Dataflow (with Source, Sink and View).
EncDataflow(d) ==
    Tagged(DataflowKey(d.variant),
      CASE d.variant = "Source" ->
             JObj(<<<<"name", EncString(d.inner.name)>>,
                    <<"connector", EncSourceConnector(d.inner.connector)>>,
                    <<"typ", EncRelationType(d.inner.typ)>>>>)
        [] d.variant = "Sink" ->
             JObj(<<<<"name", EncString(d.inner.name)>>,
                    <<"from", JArr(<<EncString(d.inner.from[1]),
                                     EncRelationType(d.inner.from[2])>>)>>,
                    <<"connector", EncSinkConnector(d.inner.connector)>>>>)
        [] d.variant = "View" ->
             JObj(<<<<"name", EncString(d.inner.name)>>,
                    <<"relation_expr", EncRelationExpr(d.inner.relation_expr)>>,
                    <<"typ", EncRelationType(d.inner.typ)>>>>))

\* Deserialize for Dataflow: the fields are read and stored; nothing compares
\* a View's typ with its relation_expr.
DecDataflow(j) ==
    IF ~IsTagged(j) THEN DecErr
    ELSE
    LET c == ContentOf(j)
        key == TagOf(j)
        relation_expr == DecRelationExpr(Field(c, "relation_expr"))
        typ == DecRelationType(Field(c, "typ"))
    IN  CASE key = "source" ->
               IF /\ IsStruct(c, {"name", "connector", "typ"})
                  /\ DecString(Field(c, "name")).ok
                  /\ DecSourceConnector(Field(c, "connector")).ok
                  /\ typ.ok
               THEN DecOk(Source(DecString(Field(c, "name")).val,
                                 DecSourceConnector(Field(c, "connector")).val,
                                 typ.val))
               ELSE DecErr
          [] key = "sink" ->
               IF /\ IsStruct(c, {"name", "from", "connector"})
                  /\ DecString(Field(c, "name")).ok
                  /\ Field(c, "from").j = "arr"
                  /\ Len(Field(c, "from").items) = 2
                  /\ DecString(Field(c, "from").items[1]).ok
                  /\ DecRelationType(Field(c, "from").items[2]).ok
                  /\ DecSinkConnector(Field(c, "connector")).ok
               THEN DecOk(Sink(DecString(Field(c, "name")).val,
                               <<DecString(Field(c, "from").items[1]).val,
                                 DecRelationType(Field(c, "from").items[2]).val>>,
                               DecSinkConnector(Field(c, "connector")).val))
               ELSE DecErr
          [] key = "view" ->
               IF /\ IsStruct(c, {"name", "relation_expr", "typ"})
                  /\ DecString(Field(c, "name")).ok
                  /\ relation_expr.ok
                  /\ typ.ok
               THEN DecOk(View(DecString(Field(c, "name")).val, relation_expr.val, typ.val))
               ELSE DecErr
          [] OTHER -> DecErr

\* serde_json::to_string_pretty(&dataflow)
Encode ==
    /\ Untouched
    /\ encoded' = [json |-> EncDataflow(dataflow)]
    /\ UNCHANGED <<orchVars, nameVars, exprVars, dataflow, df_out, decoded>>

\* serde_json::from_str(..)
Decode ==
    /\ encoded # None
    /\ decoded = None
    /\ decoded' = DecDataflow(encoded.json)
    /\ UNCHANGED <<orchVars, nameVars, exprVars, dataflow, df_out, encoded>>

(***************************************************************************)
(*        Dataflows: the specification                                     *)
(***************************************************************************)
ViewPredicates ==
    { <<Column(0)>>,
      <<If(Column(0), Literal(NullDatum), Literal(Int32Datum(1))), Literal(StringDatum("a"))>> }

ViewAggregates ==
    { <<<<AggregateExpr("Max", Column(0), TRUE), StringNotNull>>,
        <<AggregateExpr("Count", Literal(NullDatum), FALSE), Int32Nullable>>>> }

ViewBuildUnary ==
    \/ \E outputs \in {<<1, 0>>} : BuildProject(outputs)
    \/ \E scalars \in ScalarsChoices \ {<<>>} : BuildMap(scalars)
    \/ \E predicates \in ViewPredicates : BuildFilter(predicates)
    \/ \E aggregates \in ViewAggregates : BuildReduce(<<1>>, aggregates)
    \/ BuildTopK(<<0>>, <<1, 0>>, 5)
    \/ \E default \in {<<>>, <<NullDatum, Int32Datum(0)>>} : BuildOrDefault(default)
    \/ BuildNegate
    \/ BuildDistinct
    \/ BuildJoin(<<>>, <<>>, <<>>)

ViewBuildBinary ==
    \/ \E other \in ViewLeaves, self_is_left \in BOOLEAN : BuildUnion(other, self_is_left)
    \/ \E other \in ViewLeaves : BuildJoin(<<other>>, <<>>, <<<<<<0, 0>>, <<1, 0>>>>>>)
    \/ \E other \in ViewLeaves, self_is_body \in BOOLEAN : BuildLet("c2018", other, self_is_body)

InitDataflow == NameIdle /\ OrchIdle /\ ExprIdle /\ DataflowIdle

NextDataflow ==
    \/ expr = None /\ dataflow = None /\ \E leaf \in ViewLeaves : NewLeaf(leaf)
    \/ BuildEmptyJoin /\ dataflow = None
    \/ PlanReport
    \/ CanGrowBy(1) /\ ViewBuildUnary
    \/ CanGrowBy(2) /\ ViewBuildBinary
    \/ \E name \in {"orders"}, connector \in SourceConnectors, t \in {T1, T2} :
          MakeSource(name, connector, t)
    \/ \E name \in {"out"}, from \in {<<"report", T2>>, <<"orders", T0>>},
          connector \in SinkConnectors :
          MakeSink(name, from, connector)
    \/ BuildingOn /\ \E t \in ViewTypChoices(expr) : MakeView("report", t)
    \/ CallDataflowTyp
    \/ CallUses
    \/ Encode
    \/ Decode

SpecDataflow == InitDataflow /\ [][NextDataflow]_vars


(***************************************************************************)
(*        Dataflows: properties                                            *)
(***************************************************************************)
\* The names of the Get nodes of e, read off the tree: a Get gives its name,
\* any other node gives its children's names, left to right.
RECURSIVE GetNamesOf(_)
RECURSIVE GetNamesOfAll(_)
GetNamesOfAll(es) ==
    IF es = <<>> THEN <<>> ELSE GetNamesOf(Head(es)) \o GetNamesOfAll(Tail(es))
GetNamesOf(e) ==
    IF e.tag = "Get" THEN <<e.name>> ELSE GetNamesOfAll(Children(e))

\* All subterms of e, e included.
RECURSIVE Subterms(_)
Subterms(e) ==
    {e} \cup UNION {Subterms(Children(e)[k]) : k \in 1..Len(Children(e))}

Range(f) == {f[k] : k \in DOMAIN f}

UsesCalled == dataflow # None /\ df_out # None /\ df_out.op = "uses"

\* C3: uses() is empty for a Source, [from.0] for a Sink, and for a View the
\* names of all Get nodes anywhere in relation_expr, in traversal order, with
\* duplicates kept and Let-bound names not removed; a name is in the result
\* if and only if it occurs in such a Get.
C3_Uses ==
    UsesCalled =>
        CASE dataflow.variant = "Source" -> df_out.uses = <<>>
          [] dataflow.variant = "Sink" -> df_out.uses = <<dataflow.inner.from[1]>>
          [] dataflow.variant = "View" ->
               /\ df_out.uses = GetNamesOf(dataflow.inner.relation_expr)
               /\ Range(df_out.uses) =
                     {g.name : g \in {t \in Subterms(dataflow.inner.relation_expr) :
                                         t.tag = "Get"}}

\* uses() of a View whose expression names c2018 twice, once under a Let that
\* binds c2018, returned both occurrences.
C3_Witness ==
    /\ UsesCalled
    /\ dataflow.variant = "View"
    /\ dataflow.inner.relation_expr.tag = "Let"
    /\ dataflow.inner.relation_expr.name = "c2018"
    /\ df_out.uses = <<"c2018", "c2018">>

=============================================================================
